---- MODULE Spec2Model ----
(***************************************************************************)
(* Model of noise_leq_directory.py: the pipeline                          *)
(*   parse_file_samples -> groups_of_seconds -> leq -> compute_for_file   *)
(*   -> main (accumulate, sort, filter, print).                           *)
(* Date-times are whole seconds since 2000-01-01 00:00:00; the program    *)
(* only compares them and adds whole seconds to them.                     *)
(***************************************************************************)
EXTENDS Integers, Sequences, FiniteSets, TLC

(***************************************************************************)
(* Program constants.                                                      *)
(***************************************************************************)
SECONDS_PER_BLOCK == 900

None == [k |-> "none", v |-> 0]
Some(x) == [k |-> "some", v |-> x]

(***************************************************************************)
(* Bounds of the model.                                                    *)
(***************************************************************************)
\* most segments (rows or runs of rows) in one file of SpecFile
MaxSegs == 2
\* most entries in the directory of Spec
MaxFiles == 2
\* most levels in a list given to leq in SpecLeq
MaxLevels == 3
\* the last year of the calendar, datetime.MAXYEAR.  It is 9999 in Python; the
\* seconds from 2000 to 9999 do not fit the integers of the model checker, and
\* the program depends on it only through the distance of a date-time to the
\* last representable one, so the calendar of the model ends sooner.
MAXYEAR == 2026

(***************************************************************************)
(* Text fields of a csv row.  A field is modelled by what the parser can   *)
(* tell about it: t is its shape after strip(), a/b/c its numbers.         *)
(*   "date"   DD-MM-YYYY with a = DD, b = MM, c = YYYY                     *)
(*   "time"   HH:MM:SS   with a = HH, b = MM, c = SS                       *)
(*   "num"    a decimal number a (decibels)                                *)
(*   "unit"   a unit label, a = 1 for dBA, 2 for dBC                       *)
(*   "marker" text containing STANDARD                                     *)
(*   "text"   any other non-blank text                                     *)
(*   "blank"  empty or white space only                                    *)
(***************************************************************************)
Field(t, a, b, c) == [t |-> t, a |-> a, b |-> b, c |-> c]
dBA == Field("unit", 1, 0, 0)
dBC == Field("unit", 2, 0, 0)
MarkerField == Field("marker", 0, 0, 0)
TextField == Field("text", 0, 0, 0)
BlankField == Field("blank", 0, 0, 0)

(***************************************************************************)
(* datetime.strptime(f"{date_str},{time_str}", "%d-%m-%Y,%H:%M:%S")       *)
(***************************************************************************)
IsLeap(y) == (y % 4 = 0 /\ y % 100 # 0) \/ y % 400 = 0

DaysInMonth(y, m) ==
    IF m = 2 THEN (IF IsLeap(y) THEN 29 ELSE 28)
    ELSE IF m \in {4, 6, 9, 11} THEN 30 ELSE 31

RECURSIVE DaysBeforeMonth(_, _)
DaysBeforeMonth(y, m) ==
    IF m <= 1 THEN 0 ELSE DaysBeforeMonth(y, m - 1) + DaysInMonth(y, m - 1)

\* the leap years among the years 1 .. y-1
LeapYearsBefore(y) == (y - 1) \div 4 - (y - 1) \div 100 + (y - 1) \div 400

\* days from 2000-01-01 to y-01-01
DaysBeforeYear(y) == (y - 2000) * 365 + LeapYearsBefore(y) - LeapYearsBefore(2000)

\* TRUE when strptime raises ValueError
StrptimeFails(d, t) ==
    \/ d.t # "date"
    \/ t.t # "time"
    \/ d.c < 1 \/ d.c > MAXYEAR
    \/ d.b < 1 \/ d.b > 12
    \/ d.a < 1 \/ d.a > DaysInMonth(d.c, d.b)
    \/ t.a < 0 \/ t.a > 23
    \/ t.b < 0 \/ t.b > 59
    \/ t.c < 0 \/ t.c > 59

Strptime(d, t) ==
    (DaysBeforeYear(d.c) + DaysBeforeMonth(d.c, d.b) + (d.a - 1)) * 86400
        + t.a * 3600 + t.b * 60 + t.c

\* datetime.max, to the second: 31-12-MAXYEAR 23:59:59
DatetimeMax == Strptime(Field("date", 31, 12, MAXYEAR), Field("time", 23, 59, 59))

\* dt + timedelta(seconds=n) raises OverflowError past the last year
AddOverflows(dt, n) == dt + n > DatetimeMax

\* float(level_str): ValueError unless the text is a number
FloatFails(f) == f.t # "num"
Float(f) == f.a

(***************************************************************************)
(* Input files.  A file is a sequence of segments; a segment is one row    *)
(* that is not a sample, or a run of n rows one second apart.  gap is the  *)
(* number of seconds from the row before the segment to its first row.     *)
(* The rows of an "eoy" segment are dated on the last day of the calendar.  *)
(***************************************************************************)
Seg(k, n, gap, u) == [k |-> k, n |-> n, gap |-> gap, u |-> u]

RECURSIVE NumRows(_)
NumRows(segs) == IF segs = <<>> THEN 0 ELSE Head(segs).n + NumRows(Tail(segs))

\* the segment holding row i, the row's place in it and its second
RECURSIVE Locate(_, _, _, _)
Locate(segs, k, i, off) ==
    IF i <= segs[k].n
    THEN [s |-> k, off |-> off + segs[k].gap + (i - 1)]
    ELSE Locate(segs, k + 1, i - segs[k].n, off + segs[k].gap + segs[k].n - 1)

\* the first row of a file is written at 25-05-2025 23:30:00 + its gap
BaseSecondOfDay == 23 * 3600 + 30 * 60
DateOf(off) == Field("date", 25 + (BaseSecondOfDay + off) \div 86400, 5, 2025)
TimeOf(off) ==
    LET s == (BaseSecondOfDay + off) % 86400
    IN  Field("time", s \div 3600, (s % 3600) \div 60, s % 60)
LevelOf(i) == Field("num", 30 + 10 * (i % 3), 0, 0)

\* the first row of a file of "eoy" rows is written at 31-12-MAXYEAR 23:00:00
\* + its gap
EoySecondOfDay == 23 * 3600
DateOfEoy(off) == Field("date", 31 + (EoySecondOfDay + off) \div 86400, 12, MAXYEAR)
TimeOfEoy(off) ==
    LET s == (EoySecondOfDay + off) % 86400
    IN  Field("time", s \div 3600, (s % 3600) \div 60, s % 60)

\* row i of the file, as csv.reader returns it (a list of fields)
RowAt(segs, i) ==
    LET loc == Locate(segs, 1, i, 0)
        k == segs[loc.s].k
    IN  CASE k = "hdr" -> <<MarkerField>>
          [] k = "empty" -> <<>>
          [] k = "spaces" -> <<BlankField, BlankField>>
          [] k = "short" -> <<DateOf(loc.off), TimeOf(loc.off), LevelOf(i)>>
          [] k = "baddate" ->
                <<DateOf(loc.off), Field("time", 24, 0, 0), LevelOf(i), dBA>>
          [] k = "badlevel" -> <<DateOf(loc.off), TimeOf(loc.off), TextField, dBA>>
          [] k = "eoy" ->
                <<DateOfEoy(loc.off), TimeOfEoy(loc.off), LevelOf(i),
                  Field("unit", segs[loc.s].u, 0, 0)>>
          [] OTHER ->
                <<DateOf(loc.off), TimeOf(loc.off), LevelOf(i),
                  Field("unit", segs[loc.s].u, 0, 0)>>

(***************************************************************************)
(* State.                                                                  *)
(***************************************************************************)
VARIABLES
    dir,                    \* args.folder.iterdir(): the entries, in the order enumerated
    include_short_periods,  \* args.include_short_periods
    idx,                    \* main: position of file_path in dir
    pc,                     \* where the run is
    header_seen,            \* parse_file_samples
    file_specific_unit,     \* parse_file_samples
    line_num,               \* parse_file_samples
    cur,                    \* the sample handed from the parser to the partitioner
    current_start_dt,       \* groups_of_seconds
    block_end_dt,           \* groups_of_seconds
    levels,                 \* groups_of_seconds
    current_block_unit,     \* groups_of_seconds
    first_sample_in_stream, \* groups_of_seconds
    all_results,            \* main
    printed,                \* stdout: the Results printed, in order
    diag,                   \* stderr: the diagnostics, in order
    samples,                \* what parse_file_samples has yielded for the current file
    blocks,                 \* what groups_of_seconds has yielded for the current file
    accumulated,            \* all_results as it was before main sorted it
    folder_is_dir,          \* args.folder.is_dir()
    exit_code,              \* the exit status of the process, None while it runs
    leq_levels,             \* the argument of a call of leq
    leq_result              \* what that call returned or raised

parserVars == <<header_seen, file_specific_unit, line_num>>
groupVars == <<current_start_dt, block_end_dt, levels, current_block_unit,
               first_sample_in_stream>>
mainVars == <<all_results, printed, accumulated>>
leqVars == <<leq_levels, leq_result>>
vars == <<dir, include_short_periods, idx, pc, parserVars, cur, groupVars,
          mainVars, diag, samples, blocks, folder_is_dir, exit_code, leqVars>>

Diag(kind, file, line) == [kind |-> kind, file |-> file, line |-> line]

(***************************************************************************)
(* parse_file_samples: the tests it makes on a row.                        *)
(***************************************************************************)
\* every row holding the marker taken as a header
IsHeaderAnyTime(seen, row) == row # <<>> /\ row[1].t = "marker"

\* not header_seen and row and "STANDARD" in row[0]
IsHeader(seen, row) == ~seen /\ row # <<>> /\ row[1].t = "marker"

\* len(row) < 4
TooShort(row) == Len(row) < 4

\* any(s.strip() for s in row)
AnyNonBlank(row) == \E i \in 1..Len(row) : row[i].t # "blank"

\* the level not converted inside the try
InvalidDateOnly(row) == StrptimeFails(row[1], row[2])

\* the ValueError of strptime or float
InvalidData(row) == StrptimeFails(row[1], row[2]) \/ FloatFails(row[3])

\* the unit never compared
UnitMismatchNever(pinned, unit) == FALSE

\* file_specific_unit != current_row_unit, once the unit is pinned
UnitMismatch(pinned, unit) == pinned # None /\ pinned.v # unit

\* the unit after a row that parsed
PinUnit(pinned, unit) == IF pinned = None THEN Some(unit) ELSE pinned

Sample(ts, lvl, unit) == [ts |-> ts, lvl |-> lvl, unit |-> unit]

(***************************************************************************)
(* groups_of_seconds: the window arithmetic.                               *)
(***************************************************************************)
\* the comparison made strict
WindowClosedStrict(ts, end) == ts > end

\* while ts >= block_end_dt
WindowClosed(ts, end) == ts >= end

\* the grid laid on the wall-clock quarter-hours
AnchorOnQuarterHour(ts) == ts - (ts % SECONDS_PER_BLOCK)

\* current_start_dt = ts, on the first sample
AnchorOf(ts) == ts

\* the next window opened at the sample that closed the last one
NextWindowStartAtSample(end, ts) == ts

\* current_start_dt = block_end_dt
NextWindowStart(end, ts) == end

\* a window one second short
WindowEndShort(start) == start + SECONDS_PER_BLOCK - 1

\* block_end_dt = current_start_dt + timedelta(seconds=SECONDS_PER_BLOCK)
WindowEnd(start) == start + SECONDS_PER_BLOCK

\* the last block given a whole window
ActualEndOfWindow(start, lv) == start + SECONDS_PER_BLOCK

\* actual_end_dt = current_start_dt + timedelta(seconds=len(levels))
ActualEnd(start, lv) == start + Len(lv)

Block(start, end, lv, unit) == [start |-> start, end |-> end, levels |-> lv, unit |-> unit]

\* every closed window emitted
EmitsClosedAlways(lv) == TRUE

\* if levels: yield ... (inside the while loop)
EmitsClosed(lv) == lv # <<>>

\* only a full window emitted after the loop
EmitsFinalFullOnly(lv, start) == Len(lv) = SECONDS_PER_BLOCK /\ start # None

\* if levels and current_start_dt is not None: yield ... (after the loop)
EmitsFinal(lv, start) == lv # <<>> /\ start # None

(***************************************************************************)
(* leq.  A level is a whole number of decibels; float("inf") is Infinity   *)
(* and float("-inf") is -Infinity.  10 ** (L / 10.0) is modelled for the   *)
(* levels on which a double is exact or degenerate:                        *)
(*   -Infinity, and L <= -3240      0.0 (10 ** x underflows to zero)       *)
(*   L = -3235                      the least subnormal double, 2^-1074    *)
(*   L = 0, 10, ..., 50             the whole number 10^(L/10)             *)
(*   3083 <= L < Infinity           OverflowError                          *)
(*   Infinity                       inf                                    *)
(* The value of leq is kept exactly: "db" is 10 * log10(num/den) with      *)
(* num/den in lowest terms, "db_sub" is 10 * log10(num * 2^-1074).         *)
(***************************************************************************)
Infinity == 1000000

Value(k, num, den) == [k |-> k, num |-> num, den |-> den]
NaN == Value("nan", 0, 1)
PosInf == Value("inf", 0, 1)
NegInf == Value("-inf", 0, 1)
Raised(exc) == Value(exc, 0, 1)

\* 10 ** x raises OverflowError
PowOverflows(L) == L >= 3083 /\ L < Infinity

\* 10 ** x is 0.0
PowIsZero(L) == L <= -3240

\* 10 ** x is the least subnormal double
PowIsSubnormal(L) == L = -3235

\* 10 ** x is a whole number
PowIsWhole(L) == L >= 0 /\ L <= 50 /\ L % 10 = 0

RECURSIVE Pow10(_)
Pow10(n) == IF n <= 0 THEN 1 ELSE 10 * Pow10(n - 1)

RECURSIVE Gcd(_, _)
Gcd(a, b) == IF b = 0 THEN a ELSE Gcd(b, a % b)

RECURSIVE SumOfValues(_, _)
SumOfValues(lv, vals) ==
    IF vals = {} THEN 0
    ELSE LET v == CHOOSE x \in vals : TRUE
         IN  Pow10(v \div 10) * Cardinality({i \in 1..Len(lv) : lv[i] = v})
                + SumOfValues(lv, vals \ {v})

\* sum(10 ** (L / 10.0) for L in levels), the part made of whole numbers
LinearSum(lv) == SumOfValues(lv, {v \in {lv[i] : i \in 1..Len(lv)} : PowIsWhole(v)})

\* the same sum, the part made of subnormal doubles, in units of 2^-1074
SubnormalSum(lv) == Cardinality({i \in 1..Len(lv) : PowIsSubnormal(lv[i])})

\* -inf whatever made the sum zero
ZeroSumAlwaysNegInf(lv) == NegInf

\* line 133: the sum is exactly zero
ZeroSum(lv) ==
    IF \E i \in 1..Len(lv) : lv[i] = -Infinity THEN NegInf ELSE NaN

\* the sum not divided by the number of levels
MeanNotDivided(sum, n) == Value("db", sum, 1)

\* lines 134-135 on a whole sum: 10.0 * math.log10(linear_sum / len(levels))
MeanLevel(sum, n) ==
    LET g == Gcd(sum, n) IN Value("db", sum \div g, n \div g)

\* lines 134-135 on a subnormal sum of k units: k / n rounds to 0 or 1 unit
\* (a tie goes to the even 0), and math.log10(0.0) raises ValueError
SubnormalMeanLevel(k, n) ==
    IF 2 * k > n THEN Value("db_sub", 1, 1) ELSE Raised("ValueError")

\* lines 131-135, the body of the try
LeqBody(lv) ==
    IF \E i \in 1..Len(lv) : PowOverflows(lv[i]) THEN Raised("OverflowError")
    ELSE IF \E i \in 1..Len(lv) : lv[i] = Infinity THEN PosInf
    ELSE IF LinearSum(lv) > 0 THEN MeanLevel(LinearSum(lv), Len(lv))
    ELSE IF SubnormalSum(lv) > 0 THEN SubnormalMeanLevel(SubnormalSum(lv), Len(lv))
    ELSE ZeroSum(lv)

\* except OverflowError: return float("inf")
CatchOverflow(v) == IF v = Raised("OverflowError") THEN PosInf ELSE v

leq(lv) ==
    IF lv = <<>> THEN NaN ELSE CatchOverflow(LeqBody(lv))

(***************************************************************************)
(* compute_for_file: the Result of a Block.                                *)
(***************************************************************************)
Result(b) ==
    [start |-> b.start, end |-> b.end, seconds |-> Len(b.levels),
     Leq_value |-> leq(b.levels), unit |-> b.unit]

(***************************************************************************)
(* main: sort and filter.                                                  *)
(***************************************************************************)
\* r put in front of the entries with its start
RECURSIVE InsertBeforeEqual(_, _)
InsertBeforeEqual(rs, r) ==
    IF rs = <<>> THEN <<r>>
    ELSE IF Head(rs).start < r.start
         THEN <<Head(rs)>> \o InsertBeforeEqual(Tail(rs), r)
         ELSE <<r>> \o rs

\* the place of r in a list sorted by start: behind every entry whose start
\* is not greater (list.sort is stable)
RECURSIVE InsertByStart(_, _)
InsertByStart(rs, r) ==
    IF rs = <<>> THEN <<r>>
    ELSE IF Head(rs).start <= r.start
         THEN <<Head(rs)>> \o InsertByStart(Tail(rs), r)
         ELSE <<r>> \o rs

RECURSIVE SortFrom(_, _)
SortFrom(done, rest) ==
    IF rest = <<>> THEN done
    ELSE SortFrom(InsertByStart(done, Head(rest)), Tail(rest))

\* all_results.sort(key=lambda x: x["start"])
SortByStart(rs) == SortFrom(<<>>, rs)

\* the comparison made <=
IsFullPeriodOrShorter(r) == r.seconds <= SECONDS_PER_BLOCK

\* res["seconds"] == SECONDS_PER_BLOCK
IsFullPeriod(r) == r.seconds = SECONDS_PER_BLOCK

\* results_to_print
ResultsToPrint(include, rs) ==
    IF include THEN rs ELSE SelectSeq(rs, IsFullPeriod)

(***************************************************************************)
(* Directory entries.  failAt = -1: the file reads to its end; 0: open()   *)
(* raises; n > 0: reading row n raises.                                    *)
(***************************************************************************)
Entry(isfile, failAt, segs) == [isfile |-> isfile, failAt |-> failAt, segs |-> segs]

TypeOK ==
    /\ pc \in {"start", "next", "read", "while", "final", "done", "exit",
              "crash", "leq", "leq_done"}
    /\ idx \in 0..Len(dir)
    /\ header_seen \in BOOLEAN
    /\ first_sample_in_stream \in BOOLEAN

(***************************************************************************)
(* main, lines 167-171: the folder argument.                               *)
(***************************************************************************)
CheckFolder ==
    /\ pc = "start"
    /\ IF ~folder_is_dir
       THEN /\ diag' = Append(diag, Diag("not_a_directory", 0, 0))
            /\ exit_code' = Some(1)
            /\ pc' = "exit"
       ELSE /\ pc' = "next"
            /\ UNCHANGED <<diag, exit_code>>
    /\ UNCHANGED <<dir, include_short_periods, idx, parserVars, cur, groupVars,
                   mainVars, samples, blocks, folder_is_dir, leqVars>>

(***************************************************************************)
(* main, lines 171-175: the next entry of the directory.  compute_for_file *)
(* starts both generators; open() is the first thing the parser does.      *)
(***************************************************************************)
\* the flag kept from the file before
FirstSampleFlagKept(prev) == prev

\* line 104, run anew by every call of groups_of_seconds
FirstSampleFlag(prev) == TRUE

StartFile ==
    /\ pc = "next"
    /\ UNCHANGED <<folder_is_dir, exit_code, leqVars>>
    /\ idx < Len(dir)
    /\ idx' = idx + 1
    /\ samples' = <<>>
    /\ blocks' = <<>>
    /\ header_seen' = FALSE
    /\ file_specific_unit' = None
    /\ line_num' = 0
    /\ current_start_dt' = None
    /\ block_end_dt' = None
    /\ levels' = <<>>
    /\ current_block_unit' = None
    /\ first_sample_in_stream' = FirstSampleFlag(first_sample_in_stream)
    /\ IF ~dir[idx'].isfile
       THEN /\ pc' = "next"
            /\ diag' = diag
       ELSE IF dir[idx'].failAt = 0
       THEN /\ pc' = "final"
            /\ diag' = Append(diag, Diag("open_error", idx', 0))
       ELSE /\ pc' = "read"
            /\ diag' = diag
    /\ UNCHANGED <<dir, include_short_periods, cur, mainVars>>

(***************************************************************************)
(* parse_file_samples, lines 58-94: one row of the file, or its end.       *)
(* A sample it yields goes to the for loop of groups_of_seconds, which     *)
(* sets the anchor on the first one (lines 106-111).                       *)
(***************************************************************************)
\* an exception that nothing catches: main ends with a traceback on stderr
\* and the interpreter exits with status 1
Uncaught(exc) ==
    /\ pc' = "crash"
    /\ exit_code' = Some(1)
    /\ diag' = Append(diag, Diag(exc, idx, line_num))

Yield(s) ==
    /\ samples' = Append(samples, s)
    /\ cur' = s
    /\ IF first_sample_in_stream
       THEN /\ current_start_dt' = Some(AnchorOf(s.ts))
            /\ IF AddOverflows(current_start_dt'.v, SECONDS_PER_BLOCK)
               THEN \* line 109 raises OverflowError
                    /\ Uncaught("OverflowError")
                    /\ UNCHANGED <<block_end_dt, current_block_unit,
                                   first_sample_in_stream>>
               ELSE /\ block_end_dt' = Some(WindowEnd(current_start_dt'.v))
                    /\ current_block_unit' = Some(s.unit)
                    /\ first_sample_in_stream' = FALSE
                    /\ pc' = "while"
                    /\ UNCHANGED <<diag, exit_code>>
       ELSE /\ pc' = "while"
            /\ UNCHANGED <<current_start_dt, block_end_dt, current_block_unit,
                           first_sample_in_stream, diag, exit_code>>

Skip(d) ==
    /\ diag' = diag \o d
    /\ pc' = "read"
    /\ UNCHANGED <<cur, samples, current_start_dt, block_end_dt,
                   current_block_unit, first_sample_in_stream, exit_code>>

\* the second warning given whenever no header was seen
EndDiagAnyMissingHeader(seen, pinned, file, line) ==
    IF pinned = None /\ seen THEN <<Diag("no_data_after_header", file, line)>>
    ELSE IF ~seen THEN <<Diag("no_header_or_data", file, line)>>
    ELSE <<>>

\* lines 86-89, after the last row
EndDiag(seen, pinned, file, line) ==
    IF pinned = None /\ seen THEN <<Diag("no_data_after_header", file, line)>>
    ELSE IF ~seen /\ pinned = None THEN <<Diag("no_header_or_data", file, line)>>
    ELSE <<>>

ReadRow ==
    /\ pc = "read"
    /\ UNCHANGED <<folder_is_dir, leqVars>>
    /\ line_num' = line_num + 1
    /\ LET f == dir[idx]
           n == line_num + 1
       IN  IF f.failAt = n
           THEN \* except Exception
                /\ diag' = Append(diag, Diag("error_processing", idx, n))
                /\ pc' = "final"
                /\ UNCHANGED <<header_seen, file_specific_unit, cur, samples,
                               current_start_dt, block_end_dt, current_block_unit,
                               first_sample_in_stream, exit_code>>
           ELSE IF n > NumRows(f.segs)
           THEN /\ diag' = diag \o EndDiag(header_seen, file_specific_unit, idx, n)
                /\ pc' = "final"
                /\ UNCHANGED <<header_seen, file_specific_unit, cur, samples,
                               current_start_dt, block_end_dt, current_block_unit,
                               first_sample_in_stream, exit_code>>
           ELSE LET row == RowAt(f.segs, n)
                IN  IF IsHeader(header_seen, row)
                    THEN /\ header_seen' = TRUE
                         /\ Skip(<<>>)
                         /\ UNCHANGED file_specific_unit
                    ELSE IF TooShort(row)
                    THEN /\ Skip(IF AnyNonBlank(row)
                                 THEN <<Diag("short_row", idx, n)>> ELSE <<>>)
                         /\ UNCHANGED <<header_seen, file_specific_unit>>
                    ELSE IF InvalidData(row)
                    THEN /\ Skip(<<Diag("invalid_data", idx, n)>>)
                         /\ UNCHANGED <<header_seen, file_specific_unit>>
                    ELSE IF UnitMismatch(file_specific_unit, row[4].a)
                    THEN /\ Skip(<<Diag("unit_mismatch", idx, n)>>)
                         /\ UNCHANGED <<header_seen, file_specific_unit>>
                    ELSE /\ file_specific_unit' = PinUnit(file_specific_unit, row[4].a)
                         /\ Yield(Sample(Strptime(row[1], row[2]), Float(row[3]),
                                         file_specific_unit'.v))
                         /\ UNCHANGED header_seen
    /\ UNCHANGED <<dir, include_short_periods, idx, levels, mainVars, blocks>>

(***************************************************************************)
(* compute_for_file and main, lines 144-151 and 174-175: a Block that      *)
(* groups_of_seconds yields becomes a Result at the end of all_results.    *)
(***************************************************************************)
Emit(b) ==
    /\ blocks' = Append(blocks, b)
    /\ all_results' = Append(all_results, Result(b))

(***************************************************************************)
(* groups_of_seconds, lines 113-118: one turn of the while loop.           *)
(***************************************************************************)
AdvanceWindow ==
    /\ pc = "while"
    /\ UNCHANGED <<folder_is_dir, leqVars>>
    /\ WindowClosed(cur.ts, block_end_dt.v)
    /\ IF EmitsClosed(levels)
       THEN Emit(Block(current_start_dt.v, block_end_dt.v, levels, current_block_unit.v))
       ELSE UNCHANGED <<blocks, all_results>>
    /\ current_start_dt' = Some(NextWindowStart(block_end_dt.v, cur.ts))
    /\ IF AddOverflows(current_start_dt'.v, SECONDS_PER_BLOCK)
       THEN \* line 117 raises OverflowError
            /\ Uncaught("OverflowError")
            /\ UNCHANGED <<block_end_dt, levels>>
       ELSE /\ block_end_dt' = Some(WindowEnd(current_start_dt'.v))
            /\ levels' = <<>>
            /\ UNCHANGED <<pc, diag, exit_code>>
    /\ UNCHANGED <<dir, include_short_periods, idx, parserVars, cur,
                   current_block_unit, first_sample_in_stream, printed,
                   accumulated, samples>>

(***************************************************************************)
(* groups_of_seconds, line 119.                                            *)
(***************************************************************************)
AppendLevel ==
    /\ pc = "while"
    /\ UNCHANGED <<folder_is_dir, exit_code, leqVars>>
    /\ ~WindowClosed(cur.ts, block_end_dt.v)
    /\ levels' = Append(levels, cur.lvl)
    /\ pc' = "read"
    /\ UNCHANGED <<dir, include_short_periods, idx, parserVars, cur,
                   current_start_dt, block_end_dt, current_block_unit,
                   first_sample_in_stream, mainVars, diag, samples, blocks>>

(***************************************************************************)
(* groups_of_seconds, lines 121-123: the samples are exhausted.            *)
(***************************************************************************)
FinalBlock ==
    /\ pc = "final"
    /\ UNCHANGED <<folder_is_dir, leqVars>>
    /\ IF EmitsFinal(levels, current_start_dt)
       THEN IF AddOverflows(current_start_dt.v, Len(levels))
            THEN \* line 122 raises OverflowError
                 /\ Uncaught("OverflowError")
                 /\ UNCHANGED <<blocks, all_results>>
            ELSE /\ Emit(Block(current_start_dt.v,
                               ActualEnd(current_start_dt.v, levels),
                               levels, current_block_unit.v))
                 /\ pc' = "next"
                 /\ UNCHANGED <<diag, exit_code>>
       ELSE /\ pc' = "next"
            /\ UNCHANGED <<blocks, all_results, diag, exit_code>>
    /\ UNCHANGED <<dir, include_short_periods, idx, parserVars, cur, groupVars,
                   printed, accumulated, samples>>

(***************************************************************************)
(* main, lines 177-207: after the last entry.                              *)
(***************************************************************************)
\* the note given whenever the filter was applied
NoFullPeriodsWheneverFiltered(to_print, include, all) == ~include /\ all # <<>>

\* line 189
NoFullPeriods(to_print, include, all) == to_print = <<>> /\ ~include /\ all # <<>>

MainTail ==
    /\ pc = "next"
    /\ UNCHANGED <<folder_is_dir, leqVars>>
    /\ idx = Len(dir)
    /\ pc' = "done"
    /\ exit_code' = Some(0)
    /\ accumulated' = all_results
    /\ IF all_results = <<>>
       THEN /\ diag' = Append(diag, Diag("no_results", 0, 0))
            /\ UNCHANGED <<all_results, printed>>
       ELSE LET sorted == SortByStart(all_results)
                results_to_print == ResultsToPrint(include_short_periods, sorted)
            IN  /\ all_results' = sorted
                /\ printed' = results_to_print
                /\ diag' = IF NoFullPeriods(results_to_print, include_short_periods,
                                            sorted)
                           THEN Append(diag, Diag("no_full_periods", 0, 0))
                           ELSE diag
    /\ UNCHANGED <<dir, include_short_periods, idx, parserVars, cur, groupVars,
                   samples, blocks>>

Next ==
    \/ CheckFolder
    \/ StartFile
    \/ ReadRow
    \/ AdvanceWindow
    \/ AppendLevel
    \/ FinalBlock
    \/ MainTail

(***************************************************************************)
(* Initial states.                                                         *)
(***************************************************************************)
InitRun ==
    /\ idx = 0
    /\ exit_code = None
    /\ header_seen = FALSE
    /\ file_specific_unit = None
    /\ line_num = 0
    /\ cur = Sample(0, 0, 0)
    /\ current_start_dt = None
    /\ block_end_dt = None
    /\ levels = <<>>
    /\ current_block_unit = None
    /\ first_sample_in_stream = TRUE
    /\ all_results = <<>>
    /\ printed = <<>>
    /\ diag = <<>>
    /\ samples = <<>>
    /\ blocks = <<>>
    /\ accumulated = <<>>

\* the process starts in main
InitMain ==
    /\ InitRun
    /\ pc = "start"
    /\ leq_levels = <<>>
    /\ leq_result = NaN

\* the segments a file of SpecFile is made of
RowSegs ==
    { Seg("hdr", 1, 0, 0), Seg("empty", 1, 0, 0), Seg("spaces", 1, 0, 0),
      Seg("short", 1, 0, 0), Seg("baddate", 1, 0, 0), Seg("badlevel", 1, 0, 0) }
ShortRuns ==
    { Seg("run", 1, 0, 1), Seg("run", 1, 1, 1), Seg("run", 2, 900, 1),
      Seg("run", 1, 7200, 1), Seg("run", 2, 899, 1), Seg("run", 1, 1, 2) }
LongRuns == { Seg("run", SECONDS_PER_BLOCK, 1, 1) }
Segs == RowSegs \cup ShortRuns \cup LongRuns

Files == UNION { [1..n -> Segs] : n \in 1..MaxSegs }

\* one file in the directory, the options at their defaults
InitFile ==
    /\ InitMain
    /\ include_short_periods = FALSE
    /\ \/ folder_is_dir = TRUE /\ \E s \in Files : dir = <<Entry(TRUE, -1, s)>>
       \/ folder_is_dir = FALSE /\ dir = <<>>

SpecFile == InitFile /\ [][Next]_vars

\* the entries a directory of Spec is made of
FullFile == Entry(TRUE, -1, <<Seg("hdr", 1, 0, 0), Seg("run", SECONDS_PER_BLOCK, 1, 1)>>)
DirEntries ==
    { FullFile,
      Entry(TRUE, -1, <<Seg("run", 2, 1, 1)>>),
      Entry(TRUE, -1, <<Seg("run", 1, 1, 2), Seg("run", 1, 900, 2)>>),
      Entry(TRUE, -1, <<Seg("run", 1, 0, 1)>>),
      Entry(TRUE, -1, <<Seg("hdr", 1, 0, 0), Seg("badlevel", 1, 0, 0)>>),
      Entry(FALSE, -1, <<>>),
      Entry(TRUE, 0, <<Seg("run", 2, 1, 1)>>),
      Entry(TRUE, 3, <<Seg("run", 3, 1, 1)>>) }

Dirs == UNION { [1..n -> DirEntries] : n \in 0..MaxFiles }

InitDir ==
    /\ InitMain
    /\ include_short_periods \in BOOLEAN
    /\ \/ folder_is_dir = TRUE /\ dir \in Dirs
       \/ folder_is_dir = FALSE /\ dir = <<>>

Spec == InitDir /\ [][Next]_vars

(***************************************************************************)
(* leq called on a list of levels.                                         *)
(***************************************************************************)
CallLeq ==
    /\ pc = "leq"
    /\ leq_result' = leq(leq_levels)
    /\ pc' = "leq_done"
    /\ UNCHANGED <<dir, include_short_periods, idx, parserVars, cur, groupVars,
                   mainVars, diag, samples, blocks, folder_is_dir, exit_code,
                   leq_levels>>

NextLeq == CallLeq

\* the levels leq is called on
LeqLevels == {-Infinity, -4000, -3235, 30, 40, 4000, Infinity}

InitLeq ==
    /\ InitRun
    /\ pc = "leq"
    /\ dir = <<>>
    /\ folder_is_dir = TRUE
    /\ include_short_periods = FALSE
    /\ leq_levels \in UNION { [1..n -> LeqLevels] : n \in 0..MaxLevels }
    /\ leq_result = NaN

SpecLeq == InitLeq /\ [][NextLeq]_vars

(***************************************************************************)
(* Properties.                                                             *)
(***************************************************************************)
\* the entry at idx is a file and both generators have finished with it
FileDone == pc \in {"next", "done"} /\ idx >= 1 /\ dir[idx].isfile

StrictlyIncreasing(ss) == \A i \in 1..(Len(ss) - 1) : ss[i].ts < ss[i + 1].ts

\* every sample one second after the one before
Consecutive(ss) == \A i \in 1..(Len(ss) - 1) : ss[i + 1].ts = ss[i].ts + 1

LevelsOf(ss) == [i \in 1..Len(ss) |-> ss[i].lvl]

RECURSIVE ConcatLevels(_)
ConcatLevels(bs) ==
    IF bs = <<>> THEN <<>> ELSE Head(bs).levels \o ConcatLevels(Tail(bs))

\* the number of levels in the blocks before block k
RECURSIVE LevelsBefore(_, _)
LevelsBefore(bs, k) ==
    IF k <= 1 THEN 0 ELSE LevelsBefore(bs, k - 1) + Len(bs[k - 1].levels)

\* the places in samples of the levels of block k
SamplesOf(bs, k) ==
    (LevelsBefore(bs, k) + 1)..(LevelsBefore(bs, k) + Len(bs[k].levels))

\* C1: when a file's samples have strictly increasing timestamps, the levels
\* of the blocks groups_of_seconds emitted for it, concatenated in emission
\* order, are the levels of the samples in their order.
C1_ConcatReproducesInput ==
    (FileDone /\ StrictlyIncreasing(samples))
        => ConcatLevels(blocks) = LevelsOf(samples)

C1_Witness ==
    /\ FileDone
    /\ StrictlyIncreasing(samples)
    /\ Len(blocks) >= 2
    /\ Len(samples) > SECONDS_PER_BLOCK

\* C2, as stated: with strictly increasing timestamps every block but the
\* last of a file has exactly 900 levels, as many as end - start.
C2_Original ==
    (FileDone /\ StrictlyIncreasing(samples))
        => \A k \in 1..(Len(blocks) - 1) :
              /\ Len(blocks[k].levels) = SECONDS_PER_BLOCK
              /\ Len(blocks[k].levels) = blocks[k].end - blocks[k].start

\* C2, amended: with strictly increasing timestamps every block but the last
\* of a file spans exactly 900 seconds and has between 1 and 900 levels; it
\* has exactly 900 when the samples of the file are one second apart.
C2_NonFinalBlockSpansWindow ==
    (FileDone /\ StrictlyIncreasing(samples))
        => \A k \in 1..(Len(blocks) - 1) :
              /\ blocks[k].end - blocks[k].start = SECONDS_PER_BLOCK
              /\ Len(blocks[k].levels) >= 1
              /\ Len(blocks[k].levels) <= SECONDS_PER_BLOCK
              /\ Consecutive(samples) => Len(blocks[k].levels) = SECONDS_PER_BLOCK

C2_Witness ==
    /\ FileDone
    /\ Consecutive(samples)
    /\ Len(blocks) >= 2
    /\ Len(blocks[1].levels) = SECONDS_PER_BLOCK

\* C3: a block that the while loop closed holds no level of a sample whose
\* timestamp is the block's end; the sample that arrives exactly at the end
\* of a closed block opens the block that starts there.
C3_BoundaryGoesToNextWindow ==
    FileDone
        => \A k \in 1..(Len(blocks) - 1) :
              /\ \A i \in SamplesOf(blocks, k) : samples[i].ts # blocks[k].end
              /\ samples[LevelsBefore(blocks, k + 1) + 1].ts = blocks[k].end
                    => blocks[k + 1].start = blocks[k].end

C3_Witness ==
    /\ FileDone
    /\ Len(blocks) >= 2
    /\ Len(blocks[1].levels) >= 2
    /\ ConcatLevels(blocks) = LevelsOf(samples)
    /\ samples[LevelsBefore(blocks, 2) + 1].ts = blocks[1].end

\* C4: groups_of_seconds never emits a block without levels, whatever the
\* gaps between the timestamps: every block has a level and ends after it
\* starts.
C4_NoEmptyBlock ==
    \A k \in 1..Len(blocks) :
        /\ Len(blocks[k].levels) >= 1
        /\ blocks[k].end > blocks[k].start

\* two blocks of one file with whole windows skipped between them
C4_Witness ==
    /\ FileDone
    /\ Len(blocks) >= 2
    /\ blocks[2].start - blocks[1].end >= 2 * SECONDS_PER_BLOCK

(***************************************************************************)
(* What a file holds, read off its rows.                                   *)
(***************************************************************************)
Range(f) == {f[i] : i \in DOMAIN f}
Count(f, x) == Cardinality({i \in DOMAIN f : f[i] = x})

\* the file at idx was read to its end
ReadToEnd == FileDone /\ dir[idx].failAt = -1

RowsOf(segs) == [i \in 1..NumRows(segs) |-> RowAt(segs, i)]

HasMarker(row) == row # <<>> /\ row[1].t = "marker"

\* the line of the first row holding the marker, 0 if there is none
HeaderLine(rows) ==
    LET m == {i \in 1..Len(rows) : HasMarker(rows[i])}
    IN  IF m = {} THEN 0 ELSE CHOOSE i \in m : \A j \in m : i <= j

\* date/time and level both parse
Parses(row) ==
    /\ Len(row) >= 4
    /\ ~StrptimeFails(row[1], row[2])
    /\ ~FloatFails(row[3])

IsBlankRow(row) == Len(row) < 4 /\ \A i \in 1..Len(row) : row[i].t = "blank"

IsMalformedRow(row) ==
    \/ Len(row) < 4 /\ \E i \in 1..Len(row) : row[i].t # "blank"
    \/ Len(row) >= 4 /\ (StrptimeFails(row[1], row[2]) \/ FloatFails(row[3]))

HasUnit1(row) == row[4].a = 1
HasUnit2(row) == row[4].a = 2

\* the rows that parse and carry the unit of the first row that parses
RowsToYield(rows) ==
    LET parsed == SelectSeq(rows, Parses)
    IN  IF parsed = <<>> THEN <<>>
        ELSE IF Head(parsed)[4].a = 1 THEN SelectSeq(parsed, HasUnit1)
        ELSE SelectSeq(parsed, HasUnit2)

SamplesExpected(rows) ==
    LET y == RowsToYield(rows)
    IN  [i \in 1..Len(y) |->
            Sample(Strptime(y[i][1], y[i][2]), Float(y[i][3]), y[i][4].a)]

DiagsAt(file, line) == {i \in 1..Len(diag) : diag[i].file = file /\ diag[i].line = line}

\* C5: the unit of a file is the unit of its first row whose date/time and
\* level parse; every sample and every block of the file carries it; every
\* row that parses with another unit gets a unit-mismatch diagnostic, and the
\* levels of the blocks are the levels of the rows carrying the pinned unit.
C5_UnitPinned ==
    ReadToEnd
        => LET rows == RowsOf(dir[idx].segs)
               parsed == SelectSeq(rows, Parses)
           IN  parsed # <<>>
                  => LET u == Head(parsed)[4].a
                     IN  /\ \A i \in 1..Len(samples) : samples[i].unit = u
                         /\ \A k \in 1..Len(blocks) : blocks[k].unit = u
                         /\ \A i \in 1..Len(rows) :
                               (Parses(rows[i]) /\ rows[i][4].a # u)
                                  => \E j \in DiagsAt(idx, i) :
                                        diag[j].kind = "unit_mismatch"
                         /\ ConcatLevels(blocks) = LevelsOf(SamplesExpected(rows))

C5_Witness ==
    /\ ReadToEnd
    /\ \E j \in 1..Len(diag) : diag[j].kind = "unit_mismatch"
    /\ Len(samples) >= 2
    /\ blocks # <<>>

\* C6: the Results main prints are in ascending order of start, and those
\* with one start are in the order in which they were accumulated.
C6_PrintedSortedStable ==
    pc = "done"
        => /\ \A i \in 1..(Len(printed) - 1) : printed[i].start <= printed[i + 1].start
           /\ \A s \in {accumulated[i].start : i \in 1..Len(accumulated)} :
                 LET SameStart(r) == r.start = s
                     Kept(r) == r.start = s /\ (include_short_periods
                                                \/ r.seconds = SECONDS_PER_BLOCK)
                 IN  SelectSeq(printed, SameStart) = SelectSeq(accumulated, Kept)

\* two different Results with one start are printed, and sorting changed the order
C6_Witness ==
    /\ pc = "done"
    /\ accumulated # all_results
    /\ \E i \in 1..Len(printed) : \E j \in 1..Len(printed) :
          i < j /\ printed[i].start = printed[j].start /\ printed[i] # printed[j]

\* C7: without the include-short-periods option main prints exactly the
\* accumulated Results with seconds = 900; with it, every accumulated Result.
C7_PrintedAreFullPeriods ==
    pc = "done"
        => /\ Range(printed) \subseteq Range(accumulated)
           /\ \A r \in Range(accumulated) :
                 Count(printed, r) =
                    IF include_short_periods \/ r.seconds = SECONDS_PER_BLOCK
                    THEN Count(accumulated, r) ELSE 0

C7_Witness ==
    /\ pc = "done"
    /\ ~include_short_periods
    /\ printed # <<>>
    /\ Len(printed) < Len(accumulated)

C9_FailedSourceContributesNothing ==
    (FileDone /\ dir[idx].failAt >= 0)
        => /\ \E j \in 1..Len(diag) :
                 diag[j].file = idx /\ diag[j].kind \in {"open_error", "error_processing"}
           /\ samples = <<>>
           /\ blocks = <<>>

\* C10, as stated: a file without a header line gets a diagnostic about the
\* missing header and all its valid rows are yielded.
C10_Original ==
    (ReadToEnd /\ HeaderLine(RowsOf(dir[idx].segs)) = 0)
        => /\ \E j \in 1..Len(diag) :
                 diag[j].file = idx /\ diag[j].kind = "no_header_or_data"
           /\ samples = SamplesExpected(RowsOf(dir[idx].segs))

\* C10, amended: a file without a header line has all its valid rows
\* yielded; the diagnostic that names the missing header is given only when
\* the file has no valid row either.
C10_MissingHeaderTolerated ==
    (ReadToEnd /\ HeaderLine(RowsOf(dir[idx].segs)) = 0)
        => /\ samples = SamplesExpected(RowsOf(dir[idx].segs))
           /\ (\E j \in 1..Len(diag) :
                  diag[j].file = idx /\ diag[j].kind = "no_header_or_data")
                 <=> samples = <<>>

C10_Witness ==
    /\ ReadToEnd
    /\ HeaderLine(RowsOf(dir[idx].segs)) = 0
    /\ Len(samples) >= 2
    /\ diag = <<>>

(***************************************************************************)
(* Properties of leq.                                                      *)
(***************************************************************************)
Returned == pc = "leq_done"

\* C11: leq of the empty list is not-a-number; of a list whose linear
\* energies are all exactly zero it is -inf when some level is -inf and
\* not-a-number otherwise; of a list with a level whose exponentiation
\* overflows it is +inf, returned and not raised.
C11_DegenerateInputs ==
    Returned
        => /\ leq_levels = <<>> => leq_result = NaN
           /\ (leq_levels # <<>> /\ \A i \in 1..Len(leq_levels) :
                                       PowIsZero(leq_levels[i]))
                 => leq_result =
                       IF -Infinity \in Range(leq_levels) THEN NegInf ELSE NaN
           /\ (\E i \in 1..Len(leq_levels) : PowOverflows(leq_levels[i]))
                 => leq_result = PosInf

\* all three cases at once cannot be; the zero sum with and without -inf
C11_Witness ==
    /\ Returned
    /\ Len(leq_levels) = 2
    /\ leq_levels[1] = -4000
    /\ leq_levels[2] = -Infinity
    /\ leq_result = NegInf

\* the places in diag of the two diagnostics of main's tail
MainDiags(kind) == {i \in 1..Len(diag) : diag[i].kind = kind}

\* C12: when main accumulated no Result it gives the no-results diagnostic
\* and not the no-full-periods one; when it accumulated some but the filter
\* left none it gives the no-full-periods diagnostic and not the no-results
\* one; in both cases nothing is printed and the exit code is 0; and when a
\* Result is printed neither diagnostic is given.
C12_EmptyOutputDiagnostics ==
    pc = "done"
        => /\ accumulated = <<>>
                 => /\ Cardinality(MainDiags("no_results")) = 1
                    /\ MainDiags("no_full_periods") = {}
                    /\ printed = <<>>
                    /\ exit_code = Some(0)
           /\ (accumulated # <<>> /\ ResultsToPrint(include_short_periods, accumulated) = <<>>)
                 => /\ Cardinality(MainDiags("no_full_periods")) = 1
                    /\ MainDiags("no_results") = {}
                    /\ printed = <<>>
                    /\ exit_code = Some(0)
           /\ printed # <<>>
                 => /\ MainDiags("no_results") = {}
                    /\ MainDiags("no_full_periods") = {}

\* short Results were accumulated, the filter left none, the note was given
C12_Witness ==
    /\ pc = "done"
    /\ accumulated # <<>>
    /\ printed = <<>>
    /\ MainDiags("no_full_periods") # {}
    /\ exit_code = Some(0)

\* the rows of a directory entry that parse_file_samples gets to read
RowsRead(e) ==
    IF ~e.isfile \/ e.failAt = 0 THEN <<>>
    ELSE IF e.failAt > 0 /\ e.failAt <= NumRows(e.segs)
         THEN SubSeq(RowsOf(e.segs), 1, e.failAt - 1)
         ELSE RowsOf(e.segs)

\* the window each sample of ss lands in, counted in windows of 900 seconds
\* from the first sample: the window never moves back
WindowsOf(ss) ==
    [i \in 1..Len(ss) |->
        LET ws == {(ss[j].ts - ss[1].ts) \div SECONDS_PER_BLOCK : j \in 1..i}
        IN  CHOOSE w \in ws : \A v \in ws : v <= w]

\* the blocks of a stream of samples taken on its own
BlocksOfSamples(ss) ==
    LET win == WindowsOf(ss)
        ws == Range(win)
        Nth(k) == CHOOSE w \in ws : Cardinality({v \in ws : v <= w}) = k
        Lo(w) == CHOOSE i \in 1..Len(ss) : win[i] = w /\ (i = 1 \/ win[i - 1] # w)
        Hi(w) == CHOOSE i \in 1..Len(ss) : win[i] = w /\ (i = Len(ss) \/ win[i + 1] # w)
        Start(w) == ss[1].ts + w * SECONDS_PER_BLOCK
        Levels(w) == [k \in 1..(Hi(w) - Lo(w) + 1) |-> ss[Lo(w) + k - 1].lvl]
    IN  [k \in 1..Cardinality(ws) |->
            LET w == Nth(k)
            IN  Block(Start(w),
                      IF k = Cardinality(ws) THEN Start(w) + Len(Levels(w))
                      ELSE Start(w) + SECONDS_PER_BLOCK,
                      Levels(w), ss[1].unit)]

\* every entry a directory is made of, with the blocks it gives on its own
EntryBlocks == { <<e, BlocksOfSamples(SamplesExpected(RowsRead(e)))>> : e \in DirEntries }

BlocksOfEntry(e) == (CHOOSE p \in EntryBlocks : p[1] = e)[2]

RECURSIVE ResultsOfEntries(_)
ResultsOfEntries(d) ==
    IF d = <<>> THEN <<>>
    ELSE LET bs == BlocksOfEntry(Head(d))
         IN  [k \in 1..Len(bs) |-> Result(bs[k])] \o ResultsOfEntries(Tail(d))

\* C13: the blocks, and so the Results, that a directory entry gives are
\* those it gives taken on its own, whatever entries come before or after it
\* (files that fail or hold malformed rows included): the Results main
\* accumulated are, entry by entry, those of each entry on its own; and when
\* a file is started the header flag, the pinned unit, the anchor, the levels
\* and the first-sample flag are those of a first call.
C13_SourcesIndependent ==
    /\ (pc = "next" /\ idx >= 1) => blocks = BlocksOfEntry(dir[idx])
    /\ pc = "done" => accumulated = ResultsOfEntries(dir)
    /\ (pc = "read" /\ line_num = 0)
          => /\ header_seen = FALSE
             /\ file_specific_unit = None
             /\ current_start_dt = None
             /\ levels = <<>>
             /\ first_sample_in_stream = TRUE

\* a file whose reading fails after two samples, then a file with another
\* anchor
C13_Witness ==
    /\ pc = "done"
    /\ Len(dir) = 2
    /\ dir[1].failAt = 3
    /\ dir[2].failAt = -1
    /\ Len(accumulated) = 2
    /\ accumulated[1].start # accumulated[2].start

\* leq was called on a non-empty list of one level L repeated
AllEqualTo(L) ==
    /\ Returned
    /\ leq_levels # <<>>
    /\ \A i \in 1..Len(leq_levels) : leq_levels[i] = L

\* the float v is the level L: 10 * log10(v.num / v.den) with v.num / v.den = 10^(L/10)
DenotesLevel(v, L) ==
    /\ v.k = "db"
    /\ L >= 0
    /\ L % 10 = 0
    /\ v.num = Pow10(L \div 10) * v.den

\* C14, as stated: on a non-empty list of one finite level L repeated, leq
\* returns L.
C14_Original ==
    \A L \in LeqLevels \ {-Infinity, Infinity} :
        AllEqualTo(L) => DenotesLevel(leq_result, L)

\* C14, amended: on a non-empty list of one finite level L repeated, leq
\* returns L when 10^(L/10) and the sum over the list are ordinary doubles;
\* when 10^(L/10) underflows to zero it returns nan, and when it overflows
\* it returns +inf.
C14_EqualLevelsWithinRange ==
    \A L \in LeqLevels \ {-Infinity, Infinity} :
        AllEqualTo(L)
            => /\ PowIsWhole(L) => DenotesLevel(leq_result, L)
               /\ PowIsZero(L) => leq_result = NaN
               /\ PowOverflows(L) => leq_result = PosInf

\* 40 dB three times over gives 40 dB
C14_Witness ==
    /\ AllEqualTo(40)
    /\ Len(leq_levels) = MaxLevels
    /\ leq_result = Value("db", Pow10(4), 1)

\* C15: the first block groups_of_seconds emits for a file starts at the
\* timestamp t1 of the file's first sample, and every block it emits starts
\* a whole number (zero or more) of windows of 900 seconds after t1.
C15_GridAnchoredAtFirstSample ==
    blocks # <<>>
        => /\ samples # <<>>
           /\ blocks[1].start = samples[1].ts
           /\ \A k \in 1..Len(blocks) :
                 /\ blocks[k].start >= samples[1].ts
                 /\ (blocks[k].start - samples[1].ts) % SECONDS_PER_BLOCK = 0

\* the first sample is off the quarter-hour and the second block starts
\* several windows after it
C15_Witness ==
    /\ FileDone
    /\ Len(blocks) >= 2
    /\ samples[1].ts % SECONDS_PER_BLOCK # 0
    /\ blocks[2].start >= samples[1].ts + 2 * SECONDS_PER_BLOCK

\* C16: when the samples of a file are exhausted with levels collected,
\* groups_of_seconds emits one more block, the last of the file, which holds
\* those levels, starts at the start of the window open at that time and
\* ends as many seconds later as it holds levels; no level is emitted twice;
\* without samples no block is emitted.  A file that yields exactly 900
\* samples one second apart gives exactly one block and one Result, with
\* seconds = 900 and end = start + 900.
C16_FinalBlockEndsAfterItsLevels ==
    /\ (FileDone /\ levels # <<>>)
          => /\ blocks # <<>>
             /\ blocks[Len(blocks)].levels = levels
             /\ blocks[Len(blocks)].start = current_start_dt.v
             /\ blocks[Len(blocks)].end = blocks[Len(blocks)].start + Len(levels)
             /\ \A k \in 1..(Len(blocks) - 1) : blocks[k].start # current_start_dt.v
             /\ LevelsBefore(blocks, Len(blocks) + 1) = Len(samples)
    /\ (FileDone /\ samples = <<>>) => blocks = <<>>
    /\ (FileDone /\ Len(samples) = SECONDS_PER_BLOCK /\ Consecutive(samples))
          => /\ Len(blocks) = 1
             /\ Len(blocks[1].levels) = SECONDS_PER_BLOCK
             /\ blocks[1].end = blocks[1].start + SECONDS_PER_BLOCK
             /\ pc = "done"
                   => /\ Len(accumulated) = 1
                      /\ accumulated[1].seconds = SECONDS_PER_BLOCK
                      /\ accumulated[1].end = accumulated[1].start + SECONDS_PER_BLOCK

\* a header and 900 rows one second apart: one Result of 900 seconds
C16_Witness ==
    /\ pc = "done"
    /\ header_seen
    /\ Len(samples) = SECONDS_PER_BLOCK
    /\ Consecutive(samples)
    /\ Len(levels) = SECONDS_PER_BLOCK
    /\ Len(accumulated) = 1
    /\ accumulated[1].seconds = SECONDS_PER_BLOCK

\* the timestamp of the first sample of block k (the sample that closed the
\* block before it)
FirstTsOf(bs, k) == samples[LevelsBefore(bs, k) + 1].ts

NonDecreasing(ss) == \A i \in 1..(Len(ss) - 1) : ss[i].ts <= ss[i + 1].ts

\* C17: for a file with non-decreasing timestamps and any two consecutive
\* blocks of it: the later does not start before the earlier ends, nor at or
\* before the start of the earlier; it starts exactly where the earlier ends
\* when its first sample falls in the window that follows the earlier block
\* (no empty window skipped), and later than that otherwise.
C17_BlocksAdjacentOrSkipping ==
    (FileDone /\ Len(blocks) >= 2 /\ NonDecreasing(samples))
        => \A k \in 1..(Len(blocks) - 1) :
              /\ blocks[k + 1].start >= blocks[k].end
              /\ blocks[k + 1].start > blocks[k].start
              /\ FirstTsOf(blocks, k + 1) < WindowEnd(blocks[k].end)
                    => blocks[k + 1].start = blocks[k].end
              /\ FirstTsOf(blocks, k + 1) >= WindowEnd(blocks[k].end)
                    => blocks[k + 1].start > blocks[k].end

\* empty windows lie between two blocks
C17_Witness ==
    /\ FileDone
    /\ Len(blocks) = 2
    /\ NonDecreasing(samples)
    /\ FirstTsOf(blocks, 2) >= WindowEnd(blocks[1].end)
    /\ blocks[2].start > blocks[1].end

\* C18, as stated: for a file with non-decreasing timestamps, every level of
\* every block, the final one included, comes from a sample whose timestamp
\* is at or after the block's start and before its end.
C18_Original ==
    (FileDone /\ NonDecreasing(samples))
        => \A k \in 1..Len(blocks) : \A i \in SamplesOf(blocks, k) :
              /\ blocks[k].start <= samples[i].ts
              /\ samples[i].ts < blocks[k].end

\* C18, amended: for a file with non-decreasing timestamps, every level of a
\* block closed by the while loop comes from a sample with start <= t < end;
\* every level of the final block comes from a sample with
\* start <= t < start + 900, and with t < end when the samples of the file
\* are one second apart.
C18_LevelsInsideTheirWindow ==
    (FileDone /\ NonDecreasing(samples))
        => /\ \A k \in 1..(Len(blocks) - 1) : \A i \in SamplesOf(blocks, k) :
                 /\ blocks[k].start <= samples[i].ts
                 /\ samples[i].ts < blocks[k].end
           /\ blocks # <<>>
                 => \A i \in SamplesOf(blocks, Len(blocks)) :
                       /\ blocks[Len(blocks)].start <= samples[i].ts
                       /\ samples[i].ts < WindowEnd(blocks[Len(blocks)].start)
                       /\ Consecutive(samples) => samples[i].ts < blocks[Len(blocks)].end

\* the final block ends before the timestamp of one of its samples
C18_Witness ==
    /\ FileDone
    /\ NonDecreasing(samples)
    /\ Len(blocks) = 2
    /\ \E i \in SamplesOf(blocks, 2) : samples[i].ts >= blocks[2].end

(***************************************************************************)
(* Termination.  The program is one sequential process: a step that can be *)
(* taken is taken, which is weak fairness of Next.  The files are short,   *)
(* with gaps of up to eight windows, or lie on the last day of the         *)
(* calendar.                                                               *)
(***************************************************************************)
ShortFiles == UNION { [1..n -> RowSegs \cup ShortRuns] : n \in 1..MaxSegs }

\* a row at 23:00:00 of the last day, a row fifty minutes after the row before
LateRuns == { Seg("eoy", 1, 0, 1), Seg("eoy", 1, 3000, 1) }
LateFiles == UNION { [1..n -> LateRuns] : n \in 1..MaxSegs }

InitTerm ==
    /\ InitMain
    /\ include_short_periods = FALSE
    /\ \/ folder_is_dir = TRUE
          /\ \E s \in ShortFiles \cup LateFiles : dir = <<Entry(TRUE, -1, s)>>
       \/ folder_is_dir = FALSE /\ dir = <<>>

SpecTerm == InitTerm /\ [][Next]_vars /\ WF_vars(Next)

\* the sample in cur has been appended to the window that holds its timestamp
Appended ==
    /\ pc = "read"
    /\ current_start_dt.v <= cur.ts
    /\ cur.ts < block_end_dt.v

\* C19: groups_of_seconds terminates: whenever a sample is pending in the
\* while loop, the loop ends after finitely many turns with the sample
\* appended to a window that holds its timestamp; the run of the program
\* reaches the end of main; and when the file is done every sample it
\* yielded is in an emitted block.
C19_PartitionerTerminates ==
    /\ [](pc = "while" => <>Appended)
    /\ <>(pc \in {"done", "exit"})
    /\ [](FileDone => LevelsBefore(blocks, Len(blocks) + 1) = Len(samples))

(***************************************************************************)
(* The header line.                                                        *)
(***************************************************************************)
\* a record that is not blank stands before line i
NonBlankBefore(rows, i) == \E j \in 1..(i - 1) : ~IsBlankRow(rows[j])

====
